---- MODULE Spec2Model ----
(***************************************************************************)
(* Model of tigerlily.index.fixedtree: the FixedTree fixed-width substring *)
(* index and its FixedTreeNode compressed trie.                            *)
(*                                                                         *)
(* Python strings are sequences of one-character strings.  A dict is the   *)
(* sequence of its [key, val] items in insertion order, which is the order *)
(* in which a dict is iterated.  An omitted maximum_alignments (None) is   *)
(* the integer -1, which no cap the search computes can equal.             *)
(***************************************************************************)
EXTENDS Integers, Sequences, FiniteSets, Bags, TLC

VARIABLES root, width, sequence_name_table, result, inserted, files, stored,
          heap, threads

vars == <<root, width, sequence_name_table, result, inserted, files, stored,
          heap, threads>>

(* ------------------------------ bounds --------------------------------- *)

MaxSeqLen == 3
MaxRecords == 2
MaxMismatches == 2
MaxCap == 1
MaxSources == 2

(* the widths of the indexes built *)
Widths == {1, 2}

Bases == {"A", "T"}
(* the identifiers of the sequences added; "u00E9" is the one character
   U+00E9, whose UTF-8 encoding is two bytes long *)
Names == {<<"a">>, <<"u00E9">>}

(* the files store() and load() are called with *)
FileNames == {"index"}

None == -1

Strings(alphabet, lo, hi) == UNION {[1..n -> alphabet] : n \in lo..hi}

(* the reads put to an index of width w: every read of the width, and every
   read one residue shorter or longer *)
Reads(w) == Strings(Bases, w - 1, w + 1)

(* --------------------------- python helpers ---------------------------- *)

(* the outcome of a call: the exception raised ("none" if it returned) and
   the value returned *)
Return(v) == [exc |-> "none", val |-> v]
Raise(e) == [exc |-> e, val |-> <<>>]

Min(a, b) == IF a < b THEN a ELSE b

(* s[from:to] with 0 <= from; the end is clamped to len(s) as Python does *)
Slice(s, from, to) == [i \in 1..(Min(to, Len(s)) - from) |-> s[from + i]]

startswith(s, prefix) ==
    /\ Len(prefix) <= Len(s)
    /\ \A i \in 1..Len(prefix) : s[i] = prefix[i]

Truthy(x) == x # None /\ x # 0

RECURSIVE SumTo(_, _)
SumTo(f, n) == IF n = 0 THEN 0 ELSE f[n] + SumTo(f, n - 1)

hamming_distance(s1, s2) ==
    IF Len(s1) # Len(s2) THEN Raise("ValueError")
    ELSE Return(SumTo([i \in 1..Len(s1) |-> IF s1[i] # s2[i] THEN 1 ELSE 0], Len(s1)))

(* the count stopped one character early *)
greatest_common_prefix_short(s1, s2) ==
    LET smaller_length == IF Len(s1) < Len(s2) THEN Len(s1) ELSE Len(s2)
        diff == {i \in 1..smaller_length : s1[i] # s2[i]}
        first == CHOOSE i \in diff : \A j \in diff : i <= j
    IN  IF diff = {} THEN smaller_length
        ELSE IF first >= 2 THEN first - 2 ELSE 0

greatest_common_prefix(s1, s2) ==
    LET smaller_length == IF Len(s1) < Len(s2) THEN Len(s1) ELSE Len(s2)
        diff == {i \in 1..smaller_length : s1[i] # s2[i]}
    IN  IF diff = {} THEN smaller_length
        ELSE (CHOOSE i \in diff : \A j \in diff : i <= j) - 1

COMPLEMENT_TRANS(c) ==
    CASE c = "A" -> "T"
      [] c = "T" -> "A"
      [] c = "G" -> "C"
      [] c = "C" -> "G"
      [] OTHER -> c

(* the reverse without the complement *)
reverse_complement_reversed(sequence) ==
    [i \in 1..Len(sequence) |-> sequence[Len(sequence) + 1 - i]]

reverse_complement(sequence) ==
    [i \in 1..Len(sequence) |-> COMPLEMENT_TRANS(sequence[Len(sequence) + 1 - i])]

(* dict operations, on the sequence of items in insertion order *)
DictHas(d, k) == \E i \in 1..Len(d) : d[i].key = k

DictGet(d, k) == d[CHOOSE i \in 1..Len(d) : d[i].key = k].val

DictSet(d, k, v) ==
    IF DictHas(d, k)
    THEN [i \in 1..Len(d) |-> IF d[i].key = k THEN [key |-> k, val |-> v] ELSE d[i]]
    ELSE Append(d, [key |-> k, val |-> v])

(* the key left in the dict *)
DictDel_kept(d, k) == d

(* del d[k] *)
DictDel(d, k) == SelectSeq(d, LAMBDA e : e.key # k)

(* ---------------------------- FixedTreeNode ---------------------------- *)

(* the leaf made without the alignment handed to it *)
FixedTreeNode_bare(alignment) == [edges |-> <<>>, alignments |-> <<>>]

(* __init__; the optional alignment is the list of zero or one alignments *)
FixedTreeNode(alignment) == [edges |-> <<>>, alignments |-> alignment]

(* the split without the link to the old child *)
SplitNode_unlinked(edge_label, gsc, old_child) == FixedTreeNode(<<>>)

(* the old child kept under its whole label *)
SplitNode_relabelled(edge_label, gsc, old_child) ==
    [FixedTreeNode(<<>>) EXCEPT !.edges = DictSet(@, edge_label, old_child)]

(* lines 324-326: the intermediate node of a split, pointing at the old
   child through the rest of its label *)
SplitNode(edge_label, gsc, old_child) ==
    [FixedTreeNode(<<>>) EXCEPT !.edges =
        DictSet(@, Slice(edge_label, gsc, Len(edge_label)), old_child)]

RECURSIVE FixedTreeNode_insert(_, _, _)
FixedTreeNode_insert(self, sequence, alignment) ==
    IF sequence = <<>>
    THEN [self EXCEPT !.alignments = Append(@, alignment)]
    ELSE
      LET hit(i) == \/ startswith(sequence, self.edges[i].key)
                    \/ greatest_common_prefix(self.edges[i].key, sequence) > 0
          hits == {i \in 1..Len(self.edges) : hit(i)}
      IN  IF hits = {}
          THEN [self EXCEPT !.edges =
                    DictSet(@, sequence, FixedTreeNode(<<alignment>>))]
          ELSE
            LET i == CHOOSE j \in hits : \A h \in hits : j <= h
                edge_label == self.edges[i].key
            IN  IF startswith(sequence, edge_label)
                THEN [self EXCEPT !.edges = DictSet(@, edge_label,
                        FixedTreeNode_insert(DictGet(self.edges, edge_label),
                            Slice(sequence, Len(edge_label), Len(sequence)),
                            alignment))]
                ELSE
                  LET gsc == greatest_common_prefix(edge_label, sequence)
                      old_child == DictGet(self.edges, edge_label)
                      new_child == SplitNode(edge_label, gsc, old_child)
                  IN  [self EXCEPT !.edges =
                          DictSet(DictDel(@, edge_label),
                                  Slice(edge_label, 0, gsc),
                                  FixedTreeNode_insert(new_child,
                                      Slice(sequence, gsc, Len(sequence)),
                                      alignment))]

(* the remaining budget reported instead of the consumed one *)
ResultMismatch_remaining(original_mismatches, remaining_mismatches) ==
    remaining_mismatches

(* line 346: the mismatches consumed on the way to this node *)
ResultMismatch(original_mismatches, remaining_mismatches) ==
    original_mismatches - remaining_mismatches

(* lines 357-359: the cap handed to the child on a perfect prefix match *)
ChildMaximum(maximum_alignments, alignments) ==
    IF Truthy(maximum_alignments)
    THEN Return(maximum_alignments - Len(alignments))
    ELSE Return(None)

(* lines 373-376: the cap handed to the child across a mismatching edge;
   the name maximum_alignmets is not bound anywhere, so evaluating the
   first branch of the conditional raises NameError *)
ChildMaximumMismatch(maximum_alignments, alignments) ==
    IF Truthy(maximum_alignments)
    THEN Raise("NameError")
    ELSE Return(None)

(* lines 362 and 379-380: the shortcut exit *)
MaximumExceeded(maximum_alignments, alignments) ==
    Truthy(maximum_alignments) /\ Len(alignments) > maximum_alignments

(* < for <= *)
WithinMismatches_strict(hd, remaining_mismatches) == hd < remaining_mismatches

(* == for <= *)
WithinMismatches_equal(hd, remaining_mismatches) == hd = remaining_mismatches

(* line 369: may the search cross an edge at Hamming distance hd *)
WithinMismatches(hd, remaining_mismatches) == hd <= remaining_mismatches

RECURSIVE FixedTreeNode_alignments(_, _, _, _, _)
RECURSIVE FixedTreeNode_alignments_loop(_, _, _, _, _, _, _)

FixedTreeNode_alignments(self, sequence, original_mismatches, remaining_mismatches, maximum_alignments) ==
    IF sequence = <<>>
    THEN Return([i \in 1..Len(self.alignments) |->
                    <<ResultMismatch(original_mismatches, remaining_mismatches),
                      self.alignments[i][1], self.alignments[i][2],
                      self.alignments[i][3]>>])
    ELSE FixedTreeNode_alignments_loop(self, 1, <<>>, sequence,
             original_mismatches, remaining_mismatches, maximum_alignments)

(* the for loop of lines 351-384, from the i-th edge on, with the results
   accumulated so far *)
FixedTreeNode_alignments_loop(self, i, alignments, sequence, original_mismatches, remaining_mismatches, maximum_alignments) ==
    IF i > Len(self.edges) THEN Return(alignments)
    ELSE
      LET edge_label == self.edges[i].key
          child == self.edges[i].val
          rest == Slice(sequence, Len(edge_label), Len(sequence))
          next(acc) == FixedTreeNode_alignments_loop(self, i + 1, acc,
              sequence, original_mismatches, remaining_mismatches,
              maximum_alignments)
          descend(remaining, cap) ==
              IF cap.exc # "none" THEN cap
              ELSE LET sub == FixedTreeNode_alignments(child, rest,
                                  original_mismatches, remaining, cap.val)
                   IN  IF sub.exc # "none" THEN sub
                       ELSE IF MaximumExceeded(maximum_alignments,
                                               alignments \o sub.val)
                            THEN Return(alignments \o sub.val)
                            ELSE next(alignments \o sub.val)
      IN  IF startswith(sequence, edge_label)
          THEN descend(remaining_mismatches,
                       ChildMaximum(maximum_alignments, alignments))
          ELSE IF remaining_mismatches > 0
          THEN LET hd == hamming_distance(edge_label,
                             Slice(sequence, 0, Len(edge_label)))
               IN  IF hd.exc # "none" THEN hd
                   ELSE IF WithinMismatches(hd.val, remaining_mismatches)
                   THEN descend(remaining_mismatches - hd.val,
                            ChildMaximumMismatch(maximum_alignments,
                                                 alignments))
                   ELSE next(alignments)
          ELSE next(alignments)

(* ------------------------------ FixedTree ------------------------------ *)

(* __init__ without a genome *)
FixedTree(w) ==
    [root |-> FixedTreeNode(<<>>), width |-> w, sequence_name_table |-> <<>>]

(* a new id for every call, seen before or not *)
FixedTree__get_id_fresh(tab, identifier) ==
    LET val == IF tab = <<>> THEN 0 ELSE tab[Len(tab)].key
    IN  [id |-> val + 1, tab |-> Append(tab, [key |-> val + 1, val |-> identifier])]

(* the last key returned for a new identifier, not the key it was given *)
FixedTree__get_id_last(tab, identifier) ==
    LET found == {i \in 1..Len(tab) : tab[i].val = identifier}
        val == IF tab = <<>> THEN 0 ELSE tab[Len(tab)].key
    IN  IF found # {}
        THEN [id |-> tab[CHOOSE i \in found : \A j \in found : i <= j].key,
              tab |-> tab]
        ELSE [id |-> val, tab |-> DictSet(tab, val + 1, identifier)]

(* _get_id: the id and the table afterwards.  val is left by the for loop
   at the last key iterated, or stays 0 for an empty table *)
FixedTree__get_id(tab, identifier) ==
    LET found == {i \in 1..Len(tab) : tab[i].val = identifier}
        val == IF tab = <<>> THEN 0 ELSE tab[Len(tab)].key
    IN  IF found # {}
        THEN [id |-> tab[CHOOSE i \in found : \A j \in found : i <= j].key,
              tab |-> tab]
        ELSE [id |-> val + 1, tab |-> DictSet(tab, val + 1, identifier)]

(* the range one window short *)
Windows_short(seq, w) == IF Len(seq) - w > 0 THEN Len(seq) - w ELSE 0

(* the range over every offset of the sequence *)
Windows_all(seq, w) == Len(seq) + 1

(* the number of iterations of the loop of line 120 *)
Windows(seq, w) == IF Len(seq) - w + 1 > 0 THEN Len(seq) - w + 1 ELSE 0

(* offsets counted from one *)
Alignment_onebased(id, i, strand) == <<id, i + 1, strand>>

(* lines 126 and 130: the alignment record of the window at offset i *)
Alignment(id, i, strand) == <<id, i, strand>>

(* the body of the loop of lines 120-131 for offsets i, i+1, ... *)
RECURSIVE add_sequence_loop(_, _, _, _, _, _)
add_sequence_loop(node, w, seq, id, reverse, i) ==
    IF i >= Windows(seq, w) THEN node
    ELSE LET subseq == Slice(seq, i, i + w)
             forward == FixedTreeNode_insert(node, subseq,
                            Alignment(id, i, TRUE))
             both == IF reverse
                     THEN FixedTreeNode_insert(forward,
                              reverse_complement(subseq),
                              Alignment(id, i, FALSE))
                     ELSE forward
         IN  add_sequence_loop(both, w, seq, id, reverse, i + 1)

(* the width taken from a sequence shorter than it *)
FixedTree_add_sequence_fitted(self, seq, identifier, reverse) ==
    LET got == FixedTree__get_id(self.sequence_name_table, identifier)
    IN  [self EXCEPT !.sequence_name_table = got.tab,
                     !.width = Min(self.width, Len(seq)),
                     !.root = add_sequence_loop(self.root, self.width, seq,
                                                got.id, reverse, 0)]

(* add_sequence: the index after the call *)
FixedTree_add_sequence(self, seq, identifier, reverse) ==
    LET got == FixedTree__get_id(self.sequence_name_table, identifier)
    IN  [self EXCEPT !.sequence_name_table = got.tab,
                     !.root = add_sequence_loop(self.root, self.width, seq,
                                                got.id, reverse, 0)]

(* the values __init__ is handed: an int; a PolymerSequenceGroup, which is
   iterated and has a length but no sequences(); a ReferenceGenome, whose
   sequences() returns the group of its sequences *)
int(n) == [type |-> "int", val |-> n]

PolymerSequenceGroup(sequences) ==
    [type |-> "PolymerSequenceGroup", val |-> sequences]

ReferenceGenome(sequences) == [type |-> "ReferenceGenome", val |-> sequences]

(* line 62: the truth value of genome *)
bool(v) ==
    CASE v.type = "int" -> v.val # 0
      [] v.type = "PolymerSequenceGroup" -> Len(v.val) > 0
      [] OTHER -> TRUE

(* lines 63-64: add_sequence of each sequence, from the i-th on *)
RECURSIVE add_sequences(_, _, _, _)
add_sequences(this, sequences, reverse, i) ==
    IF i > Len(sequences) THEN Return(this)
    ELSE IF this.width.type # "int" THEN Raise("TypeError")
    ELSE LET index == [this EXCEPT !.width = this.width.val]
             added == FixedTree_add_sequence(index, sequences[i].sequence,
                          sequences[i].identifier, reverse)
         IN  add_sequences([added EXCEPT !.width = this.width], sequences,
                           reverse, i + 1)


(* __init__(self, width, genome, reverse) *)
FixedTree___init__(w, genome, reverse) ==
    LET this == [root |-> FixedTreeNode(<<>>), width |-> w,
                 sequence_name_table |-> <<>>]
    IN  IF ~bool(genome) THEN Return(this)
        ELSE IF genome.type # "ReferenceGenome" THEN Raise("AttributeError")
        ELSE add_sequences(this, genome.val, reverse, 1)

(* < for != : a read shorter than the width is let through *)
WrongWidth_longer(w, sequence) == w < Len(sequence)

(* line 189 *)
WrongWidth(w, sequence) == w # Len(sequence)

(* the cap handed to the search whether or not best_alignments is set *)
SearchMaximum_always(maximum_alignments, best_alignments) == maximum_alignments

(* line 195: the cap handed to the search *)
SearchMaximum(maximum_alignments, best_alignments) ==
    IF best_alignments THEN None ELSE maximum_alignments

_extract_result_mismatch(alignment) == alignment[1]

(* a sort that puts an alignment before those of the same mismatch count *)
RECURSIVE SortByMismatch_unstable(_)
SortByMismatch_unstable(list) ==
    IF Len(list) <= 1 THEN list
    ELSE LET x == list[Len(list)]
             front == SortByMismatch_unstable(SubSeq(list, 1, Len(list) - 1))
             n == Cardinality({i \in 1..Len(front) :
                      _extract_result_mismatch(front[i])
                          < _extract_result_mismatch(x)})
         IN  SubSeq(front, 1, n) \o <<x>> \o SubSeq(front, n + 1, Len(front))

(* list.sort(key=_extract_result_mismatch): a stable sort *)
RECURSIVE SortByMismatch(_)
SortByMismatch(list) ==
    IF Len(list) <= 1 THEN list
    ELSE LET x == list[Len(list)]
             front == SortByMismatch(SubSeq(list, 1, Len(list) - 1))
             n == Cardinality({i \in 1..Len(front) :
                      _extract_result_mismatch(front[i])
                          <= _extract_result_mismatch(x)})
         IN  SubSeq(front, 1, n) \o <<x>> \o SubSeq(front, n + 1, Len(front))

(* the truncation left out *)
Truncate_omitted(alignments, maximum_alignments) == alignments

(* lines 203-204 *)
Truncate(alignments, maximum_alignments) ==
    IF Truthy(maximum_alignments) /\ Len(alignments) > maximum_alignments
    THEN SubSeq(alignments, 1, maximum_alignments)
    ELSE alignments

(* the outcome of alignments(); found is the list as it stands at line 205,
   before the ids are resolved to names *)
FixedTree_alignments(self, sequence, mismatches, maximum_alignments, best_alignments) ==
    IF WrongWidth(self.width, sequence)
    THEN [exc |-> "ValueError", val |-> <<>>, found |-> <<>>]
    ELSE
      LET search == FixedTreeNode_alignments(self.root, sequence, mismatches,
                        mismatches,
                        SearchMaximum(maximum_alignments, best_alignments))
      IN  IF search.exc # "none"
          THEN [exc |-> search.exc, val |-> <<>>, found |-> <<>>]
          ELSE
            LET sorted == IF best_alignments THEN SortByMismatch(search.val)
                          ELSE search.val
                alignments == Truncate(sorted, maximum_alignments)
            IN  IF \E i \in 1..Len(alignments) :
                      ~DictHas(self.sequence_name_table, alignments[i][2])
                THEN [exc |-> "KeyError", val |-> <<>>, found |-> alignments]
                ELSE [exc |-> "none",
                      val |-> [i \in 1..Len(alignments) |->
                          <<DictGet(self.sequence_name_table, alignments[i][2]),
                            alignments[i][3], alignments[i][4]>>],
                      found |-> alignments]

(* >= for > *)
FixedTree___contains___nonneg(this, sequence) ==
    LET a == FixedTree_alignments(this, sequence, 0, None, FALSE)
    IN  IF a.exc # "none" THEN Raise(a.exc) ELSE Return(Len(a.val) >= 0)

(* __contains__: alignments() with every optional argument at its default *)
FixedTree___contains__(self, sequence) ==
    LET a == FixedTree_alignments(self, sequence, 0, None, FALSE)
    IN  IF a.exc # "none" THEN Raise(a.exc) ELSE Return(Len(a.val) > 0)

(* ------------------------------- codec --------------------------------- *)

(* struct.pack('<I', v): four bytes, least significant first *)
pack_I(v) ==
    <<v % 256, (v \div 256) % 256, (v \div 65536) % 256, (v \div 16777216) % 256>>

(* struct.pack('<{n}s', bytes): the bytes cut to n, or padded with zero
   bytes to n *)
pack_s(n, bytes) == [i \in 1..n |-> IF i <= Len(bytes) THEN bytes[i] ELSE 0]

(* struct.pack('<?', b) *)
pack_bool(b) == IF b THEN <<1>> ELSE <<0>>

(* the UTF-8 encoding of one character *)
utf8(c) ==
    CASE c = "u00E9" -> <<195, 169>>
      [] c = "A" -> <<65>>
      [] c = "C" -> <<67>>
      [] c = "G" -> <<71>>
      [] c = "T" -> <<84>>
      [] c = "a" -> <<97>>
      [] OTHER -> <<63>>

(* str.encode('utf-8') *)
RECURSIVE encode(_)
encode(str) == IF str = <<>> THEN <<>> ELSE utf8(Head(str)) \o encode(Tail(str))

(* the character of a code point; no other code point is written by store
   for the identifiers and residues above *)
chr(code) ==
    CASE code = 233 -> "u00E9"
      [] code = 65 -> "A"
      [] code = 67 -> "C"
      [] code = 71 -> "G"
      [] code = 84 -> "T"
      [] code = 97 -> "a"
      [] OTHER -> "?"

(* bytes.decode('utf-8'), for one- and two-byte sequences: a lead byte
   without its continuation byte, or a continuation byte on its own, raises
   UnicodeDecodeError *)
RECURSIVE decode(_)
decode(bytes) ==
    IF bytes = <<>> THEN Return(<<>>)
    ELSE LET b == Head(bytes)
         IN  IF b < 128
             THEN LET rest == decode(Tail(bytes))
                  IN  IF rest.exc # "none" THEN rest
                      ELSE Return(<<chr(b)>> \o rest.val)
             ELSE IF /\ b >= 194 /\ b <= 223 /\ Len(bytes) >= 2
                     /\ bytes[2] >= 128 /\ bytes[2] <= 191
             THEN LET rest == decode(Tail(Tail(bytes)))
                  IN  IF rest.exc # "none" THEN rest
                      ELSE Return(<<chr((b - 192) * 64 + (bytes[2] - 128))>>
                                  \o rest.val)
             ELSE Raise("UnicodeDecodeError")

(* lines 80-82 and 274-277: a string as its length and its bytes.  The
   length written is len() of the str, the number of its characters, and
   the same number is the width of the 's' field the encoded bytes are
   packed into *)
pack_str(str) == pack_I(Len(str)) \o pack_s(Len(str), encode(str))

(* FixedTreeNode.store: the bytes written for a node and its children *)
RECURSIVE FixedTreeNode_store(_)
RECURSIVE store_edges(_, _)
RECURSIVE store_alignments(_, _)

store_alignments(list, i) ==
    IF i > Len(list) THEN <<>>
    ELSE pack_I(list[i][1]) \o pack_I(list[i][2]) \o pack_bool(list[i][3])
         \o store_alignments(list, i + 1)

store_edges(edges, i) ==
    IF i > Len(edges) THEN <<>>
    ELSE pack_str(edges[i].key) \o FixedTreeNode_store(edges[i].val)
         \o store_edges(edges, i + 1)

FixedTreeNode_store(node) ==
    pack_I(Len(node.alignments)) \o store_alignments(node.alignments, 1)
    \o pack_I(Len(node.edges)) \o store_edges(node.edges, 1)

(* sorted(self.sequence_name_table.keys()) *)
RECURSIVE sorted(_)
sorted(keys) ==
    IF keys = {} THEN <<>>
    ELSE LET least == CHOOSE k \in keys : \A j \in keys : k <= j
         IN  <<least>> \o sorted(keys \ {least})

RECURSIVE store_names(_, _, _)
store_names(tab, keys, i) ==
    IF i > Len(keys) THEN <<>>
    ELSE pack_str(DictGet(tab, keys[i])) \o store_names(tab, keys, i + 1)

(* lines 74-84: the bytes FixedTree.store writes through the BZ2File.  The
   file is modelled by the uncompressed stream, which is what reading it
   back through BZ2File yields *)
FixedTree_store(this) ==
    pack_I(this.width) \o pack_I(Len(this.sequence_name_table))
    \o store_names(this.sequence_name_table,
           sorted({this.sequence_name_table[i].key :
                      i \in 1..Len(this.sequence_name_table)}), 1)
    \o FixedTreeNode_store(this.root)

(* a buffer being read: the bytes and the number of them consumed *)
Buffer(data) == [data |-> data, pos |-> 0]

(* buffer.read(n): up to n bytes, fewer at the end of the stream *)
read(buffer, n) ==
    SubSeq(buffer.data, buffer.pos + 1, Min(buffer.pos + n, Len(buffer.data)))

advance(buffer, n) ==
    [buffer EXCEPT !.pos = Min(buffer.pos + n, Len(buffer.data))]

unpack_I(bytes) ==
    bytes[1] + 256 * bytes[2] + 65536 * bytes[3] + 16777216 * bytes[4]

(* _unpack_buffer(format, buffer) for a format of the given size: the bytes
   read and the buffer afterwards; struct.error when the stream ends before
   the size is read *)
_unpack_buffer(size, buffer) ==
    IF Len(read(buffer, size)) # size
    THEN [exc |-> "struct.error", val |-> <<>>, buffer |-> buffer]
    ELSE [exc |-> "none", val |-> read(buffer, size),
          buffer |-> advance(buffer, size)]

Failed(exc, buffer) == [exc |-> exc, val |-> <<>>, buffer |-> buffer]

(* a length and then a string of that many bytes, decoded: lines 100-102
   and 294-296 *)
unpack_str(buffer) ==
    LET len == _unpack_buffer(4, buffer)
    IN  IF len.exc # "none" THEN len
        ELSE LET bytes == _unpack_buffer(unpack_I(len.val), len.buffer)
             IN  IF bytes.exc # "none" THEN bytes
                 ELSE LET str == decode(bytes.val)
                      IN  IF str.exc # "none" THEN Failed(str.exc, bytes.buffer)
                          ELSE [exc |-> "none", val |-> str.val,
                                buffer |-> bytes.buffer]

(* FixedTreeNode.load *)
RECURSIVE FixedTreeNode_load(_)
RECURSIVE load_edges(_, _, _)
RECURSIVE load_alignments(_, _, _)

(* the loop of lines 287-289, n alignments still to read *)
load_alignments(newnode, n, buffer) ==
    IF n = 0 THEN [exc |-> "none", val |-> newnode, buffer |-> buffer]
    ELSE LET alignment == _unpack_buffer(9, buffer)
         IN  IF alignment.exc # "none" THEN alignment
             ELSE load_alignments(
                      [newnode EXCEPT !.alignments = Append(@,
                          <<unpack_I(SubSeq(alignment.val, 1, 4)),
                            unpack_I(SubSeq(alignment.val, 5, 8)),
                            alignment.val[9] # 0>>)],
                      n - 1, alignment.buffer)

(* the loop of lines 293-297, n edges still to read *)
load_edges(newnode, n, buffer) ==
    IF n = 0 THEN [exc |-> "none", val |-> newnode, buffer |-> buffer]
    ELSE LET label == unpack_str(buffer)
         IN  IF label.exc # "none" THEN label
             ELSE LET child == FixedTreeNode_load(label.buffer)
                  IN  IF child.exc # "none" THEN child
                      ELSE load_edges(
                               [newnode EXCEPT !.edges =
                                   DictSet(@, label.val, child.val)],
                               n - 1, child.buffer)

FixedTreeNode_load(buffer) ==
    LET num_alignments == _unpack_buffer(4, buffer)
    IN  IF num_alignments.exc # "none" THEN num_alignments
        ELSE LET loaded == load_alignments(FixedTreeNode(<<>>),
                               unpack_I(num_alignments.val),
                               num_alignments.buffer)
             IN  IF loaded.exc # "none" THEN loaded
                 ELSE LET num_edges == _unpack_buffer(4, loaded.buffer)
                      IN  IF num_edges.exc # "none" THEN num_edges
                          ELSE load_edges(loaded.val, unpack_I(num_edges.val),
                                          num_edges.buffer)

(* the loop of lines 99-103, from id i on *)
RECURSIVE load_names(_, _, _, _)
load_names(tab, i, num_seqs, buffer) ==
    IF i > num_seqs THEN [exc |-> "none", val |-> tab, buffer |-> buffer]
    ELSE LET name == unpack_str(buffer)
         IN  IF name.exc # "none" THEN name
             ELSE load_names(DictSet(tab, i, name.val), i + 1, num_seqs,
                             name.buffer)

(* FixedTree.load, of the bytes of the file: the new index *)
FixedTree_load(data) ==
    LET head == _unpack_buffer(8, Buffer(data))
    IN  IF head.exc # "none" THEN Raise(head.exc)
        ELSE LET w == unpack_I(SubSeq(head.val, 1, 4))
                 num_seqs == unpack_I(SubSeq(head.val, 5, 8))
                 names == load_names(<<>>, 1, num_seqs, head.buffer)
             IN  IF names.exc # "none" THEN Raise(names.exc)
                 ELSE LET node == FixedTreeNode_load(names.buffer)
                      IN  IF node.exc # "none" THEN Raise(node.exc)
                          ELSE Return([FixedTree(w) EXCEPT
                                   !.sequence_name_table = names.val,
                                   !.root = node.val])

(* ------------------------------- state --------------------------------- *)

self == [root |-> root, width |-> width,
         sequence_name_table |-> sequence_name_table]

Idle == [op |-> "idle"]

(* the test for the target left out *)
exists_never(fs, filename) == FALSE

(* line 71: os.path.exists(filename) *)
exists(fs, filename) == fs[filename].exists

(* a path at which os.path.exists() is false *)
NoFile == [exists |-> FALSE, data |-> <<>>]

(* for each file, the index that was stored in it and the windows that
   index had been handed, kept for the claims *)
NotStored == [index |-> FixedTree(0), inserted |-> EmptyBag]

(* the windows add_sequence is documented to index, as
   <<fragment, identifier, offset, strand>> *)
WindowsOf(seq, identifier, reverse, w) ==
    LET fwd == {<<Slice(seq, i, i + w), identifier, i, TRUE>> :
                    i \in 0..(Len(seq) - w)}
        rev == {<<reverse_complement(Slice(seq, i, i + w)), identifier, i, FALSE>> :
                    i \in 0..(Len(seq) - w)}
    IN  IF reverse THEN fwd \cup rev ELSE fwd

Init ==
    /\ width \in Widths
    /\ root = FixedTree(width).root
    /\ sequence_name_table = FixedTree(width).sequence_name_table
    /\ result = Idle
    /\ inserted = EmptyBag
    /\ files = [f \in FileNames |-> NoFile]
    /\ stored = [f \in FileNames |-> NotStored]
    /\ heap = <<>>
    /\ threads = <<>>

AddSequence ==
    /\ result = Idle
    /\ \E seq \in Strings(Bases, 0, MaxSeqLen), identifier \in Names,
          reverse \in BOOLEAN :
          LET new == FixedTree_add_sequence(self, seq, identifier, reverse)
              windows == WindowsOf(seq, identifier, reverse, width)
          IN  /\ BagCardinality(inserted) + Cardinality(windows) <= MaxRecords
              /\ root' = new.root
              /\ sequence_name_table' = new.sequence_name_table
              /\ width' = new.width
              /\ inserted' = inserted (+) SetToBag(windows)
              /\ result' = [op |-> "add_sequence", sequence |-> seq,
                             identifier |-> identifier, reverse |-> reverse]
    /\ UNCHANGED <<files, stored, heap, threads>>

Alignments ==
    /\ result = Idle
    /\ \E sequence \in Reads(width),
          mismatches \in 0..MaxMismatches,
          maximum_alignments \in {None} \cup 1..MaxCap,
          best_alignments \in BOOLEAN :
          LET out == FixedTree_alignments(self, sequence, mismatches,
                         maximum_alignments, best_alignments)
          IN  result' = [op |-> "alignments", sequence |-> sequence,
                         mismatches |-> mismatches,
                         maximum_alignments |-> maximum_alignments,
                         best_alignments |-> best_alignments,
                         exc |-> out.exc, val |-> out.val, found |-> out.found]
    /\ UNCHANGED <<root, width, sequence_name_table, inserted, files, stored,
                 heap, threads>>

Contains ==
    /\ result = Idle
    /\ \E sequence \in Reads(width) :
          LET out == FixedTree___contains__(self, sequence)
          IN  result' = [op |-> "contains", sequence |-> sequence,
                         exc |-> out.exc, val |-> out.val]
    /\ UNCHANGED <<root, width, sequence_name_table, inserted, files, stored,
                 heap, threads>>

(* the caller takes the outcome and goes on to its next call *)
Continue ==
    /\ result # Idle
    /\ result' = Idle
    /\ UNCHANGED <<root, width, sequence_name_table, inserted, files, stored,
                 heap, threads>>

(* store(filename) *)
Store ==
    /\ result = Idle
    /\ \E filename \in FileNames :
          IF exists(files, filename)
          THEN /\ result' = [op |-> "store", filename |-> filename,
                             exc |-> "EnvironmentError"]
               /\ UNCHANGED <<files, stored>>
          ELSE /\ files' = [files EXCEPT ![filename] =
                               [exists |-> TRUE, data |-> FixedTree_store(self)]]
               /\ stored' = [stored EXCEPT ![filename] =
                               [index |-> self, inserted |-> inserted]]
               /\ result' = [op |-> "store", filename |-> filename,
                             exc |-> "none"]
    /\ UNCHANGED <<root, width, sequence_name_table, inserted, heap, threads>>

(* index = FixedTree.load(filename): the index loaded takes the place of
   the one in use when load returns, and not when it raises *)
Load ==
    /\ result = Idle
    /\ \E filename \in FileNames :
          IF ~files[filename].exists
          THEN /\ result' = [op |-> "load", filename |-> filename,
                             exc |-> "IOError"]
               /\ UNCHANGED <<root, width, sequence_name_table, inserted>>
          ELSE LET new == FixedTree_load(files[filename].data)
               IN  /\ result' = [op |-> "load", filename |-> filename,
                                 exc |-> new.exc]
                   /\ IF new.exc = "none"
                      THEN /\ root' = new.val.root
                           /\ width' = new.val.width
                           /\ sequence_name_table' = new.val.sequence_name_table
                           /\ inserted' = stored[filename].inserted
                      ELSE UNCHANGED <<root, width, sequence_name_table, inserted>>
    /\ UNCHANGED <<files, stored, heap, threads>>

(* the first n bytes of a stream *)
Cut(data, n) == SubSeq(data, 1, n)

(* a stream with the byte at position p lowered by one *)
Lowered(data, p) == [data EXCEPT ![p] = @ - 1]

(* the largest value of a count, a length, an id or an offset in the streams
   written here; every byte of a residue or of an identifier is larger *)
MaxField == 63

(* the file is replaced by one that store did not write: the stream of the
   stored index cut short, or with one of its numeric fields lowered *)
Damage ==
    /\ result = Idle
    /\ \E filename \in FileNames :
          LET data == files[filename].data
          IN  /\ exists(files, filename)
              /\ data = FixedTree_store(stored[filename].index)
              /\ \E damaged \in {Cut(data, n) : n \in 0..(Len(data) - 1)}
                      \cup {Lowered(data, p) :
                               p \in {q \in 1..Len(data) :
                                         data[q] > 0 /\ data[q] <= MaxField}} :
                    files' = [files EXCEPT ![filename].data = damaged]
    /\ UNCHANGED <<root, width, sequence_name_table, result, inserted, stored,
                 heap, threads>>

(* building and querying an index *)
Next == AddSequence \/ Alignments \/ Contains \/ Continue

Spec == Init /\ [][Next]_vars

(* building, storing and loading an index *)
NextStore == AddSequence \/ Store \/ Load \/ Continue

SpecStore == Init /\ [][NextStore]_vars

(* the widths of the indexes built where only the trie is looked at: wide
   enough for an edge to be split at its second residue, and for a split
   below a split *)
TrieWidths == {2, 3}

InitTrie ==
    /\ width \in TrieWidths
    /\ root = FixedTree(width).root
    /\ sequence_name_table = FixedTree(width).sequence_name_table
    /\ result = Idle
    /\ inserted = EmptyBag
    /\ files = [f \in FileNames |-> NoFile]
    /\ stored = [f \in FileNames |-> NotStored]
    /\ heap = <<>>
    /\ threads = <<>>

(* building an index *)
NextTrie == AddSequence \/ Continue

SpecTrie == InitTrie /\ [][NextTrie]_vars

(* one sequence over the four residues, and its identifier *)
GGAATTCC == <<"G", "G", "A", "A", "T", "T", "C", "C">>

foo == <<"f", "o", "o">>

Residues == {"A", "C", "G", "T"}

(* an empty index of width 2 *)
InitPairs ==
    /\ width = 2
    /\ root = FixedTree(width).root
    /\ sequence_name_table = FixedTree(width).sequence_name_table
    /\ result = Idle
    /\ inserted = EmptyBag
    /\ files = [f \in FileNames |-> NoFile]
    /\ stored = [f \in FileNames |-> NotStored]
    /\ heap = <<>>
    /\ threads = <<>>

(* add_sequence of the one sequence, once *)
AddFoo ==
    /\ result = Idle
    /\ inserted = EmptyBag
    /\ \E reverse \in BOOLEAN :
          LET new == FixedTree_add_sequence(self, GGAATTCC, foo, reverse)
          IN  /\ root' = new.root
              /\ sequence_name_table' = new.sequence_name_table
              /\ width' = new.width
              /\ inserted' = SetToBag(WindowsOf(GGAATTCC, foo, reverse, width))
              /\ result' = [op |-> "add_sequence", sequence |-> GGAATTCC,
                             identifier |-> foo, reverse |-> reverse]
    /\ UNCHANGED <<files, stored, heap, threads>>

(* alignments() of a pair of residues *)
AlignmentsOfPair ==
    /\ result = Idle
    /\ \E sequence \in Strings(Residues, 2, 2), mismatches \in 0..2,
          best_alignments \in BOOLEAN :
          LET out == FixedTree_alignments(self, sequence, mismatches, None,
                         best_alignments)
          IN  result' = [op |-> "alignments", sequence |-> sequence,
                         mismatches |-> mismatches,
                         maximum_alignments |-> None,
                         best_alignments |-> best_alignments,
                         exc |-> out.exc, val |-> out.val, found |-> out.found]
    /\ UNCHANGED <<root, width, sequence_name_table, inserted, files, stored,
                 heap, threads>>

(* the containment test of a pair of residues *)
ContainsPair ==
    /\ result = Idle
    /\ \E sequence \in Strings(Residues, 2, 2) :
          LET out == FixedTree___contains__(self, sequence)
          IN  result' = [op |-> "contains", sequence |-> sequence,
                         exc |-> out.exc, val |-> out.val]
    /\ UNCHANGED <<root, width, sequence_name_table, inserted, files, stored,
                 heap, threads>>

(* the index of width 2 over the one sequence, and its queries *)
NextPairs == AddFoo \/ AlignmentsOfPair \/ ContainsPair \/ Continue

SpecPairs == InitPairs /\ [][NextPairs]_vars

(* the sequences of a source, each with its identifier *)
Sources ==
    UNION {[1..n -> [sequence : Strings(Bases, 0, MaxSeqLen), identifier : Names]] :
              n \in 0..MaxSources}

(* the windows add_sequence is documented to index for each sequence *)
RECURSIVE WindowsOfAll(_, _, _, _)
WindowsOfAll(source, reverse, w, i) ==
    IF i > Len(source) THEN EmptyBag
    ELSE SetToBag(WindowsOf(source[i].sequence, source[i].identifier, reverse, w))
         (+) WindowsOfAll(source, reverse, w, i + 1)

(* index = FixedTree(...): the index constructed takes the place of the
   empty one when __init__ returns *)
Constructed(out, source, reverse) ==
    /\ result' = [op |-> "construct", source |-> source, reverse |-> reverse,
                   exc |-> out.exc]
    /\ IF out.exc = "none"
       THEN /\ root' = out.val.root
            /\ sequence_name_table' = out.val.sequence_name_table
            /\ inserted' = WindowsOfAll(source, reverse, width, 1)
       ELSE UNCHANGED <<root, sequence_name_table, inserted>>
    /\ UNCHANGED <<width, files, stored, heap, threads>>

(* FixedTree(width, genome, reverse), as the docstring of __init__ has it *)
Construct ==
    /\ result = Idle
    /\ self = FixedTree(width)
    /\ \E source \in Sources, reverse \in BOOLEAN :
          /\ BagCardinality(WindowsOfAll(source, reverse, width, 1)) <= MaxRecords
          /\ Constructed(FixedTree___init__(int(width), ReferenceGenome(source),
                                            reverse),
                         source, reverse)

(* fixedtree_test.py, line 76: FixedTree(self.seq_grp, self.index_width) *)
test_create_index ==
    /\ result = Idle
    /\ self = FixedTree(width)
    /\ \E seq_grp \in Sources :
          /\ BagCardinality(WindowsOfAll(seq_grp, FALSE, width, 1)) <= MaxRecords
          /\ Constructed(FixedTree___init__(PolymerSequenceGroup(seq_grp),
                                            int(width), FALSE),
                         seq_grp, FALSE)

(* constructing an index from a source and adding to it *)
NextBuild == Construct \/ test_create_index \/ AddSequence \/ Continue

SpecBuild == Init /\ [][NextBuild]_vars

(* storing an index and loading a file that is not the one stored *)
NextDamaged == AddSequence \/ Store \/ Damage \/ Load \/ Continue

SpecDamaged == Init /\ [][NextDamaged]_vars

(* ------------------------- what the claims use ------------------------- *)

(* the Hamming distance of two strings of one length, counted directly *)
Distance(a, b) == Cardinality({i \in 1..Len(a) : a[i] # b[i]})

BagOfSeq(s) ==
    [x \in {s[i] : i \in DOMAIN s} |-> Cardinality({i \in DOMAIN s : s[i] = x})]

(* the inserted windows as <<distance to q, identifier, offset, strand>>,
   those at distance at most m, each as often as it was inserted *)
RECURSIVE BagOfWindows(_, _, _)
BagOfWindows(windows, q, m) ==
    IF windows = {} THEN EmptyBag
    ELSE LET w == CHOOSE x \in windows : TRUE
             others == BagOfWindows(windows \ {w}, q, m)
             d == Distance(w[1], q)
         IN  IF d <= m
             THEN others (+) [x \in {<<d, w[2], w[3], w[4]>>} |-> inserted[w]]
             ELSE others

Within(q, m) == BagOfWindows(BagToSet(inserted), q, m)

(* the same without the distance *)
Unranked(bag) ==
    LET S == BagToSet(bag)
        P == {<<x[2], x[3], x[4]>> : x \in S}
    IN  [p \in P |-> BagCardinality(
            [x \in {y \in S : <<y[2], y[3], y[4]>> = p} |-> bag[x]])]

(* the list a search returned, before the ids were resolved, with the ids
   resolved *)
Found(r) ==
    BagOfSeq([i \in 1..Len(r.found) |->
        <<r.found[i][1], DictGet(sequence_name_table, r.found[i][2]),
          r.found[i][3], r.found[i][4]>>])

IsQuery == result.op = "alignments" /\ Len(result.sequence) = width

(* C1: a query for an inserted forward fragment with no mismatches allowed
   returns that window, and a query that differs from every inserted
   fragment returns nothing. *)
C1_ExactMatch ==
    (/\ IsQuery
     /\ result.mismatches = 0
     /\ result.maximum_alignments = None
     /\ ~result.best_alignments)
    => /\ result.exc = "none"
       /\ \A w \in BagToSet(inserted) :
             (w[1] = result.sequence /\ w[4])
             => \E i \in 1..Len(result.val) : result.val[i] = <<w[2], w[3], TRUE>>
       /\ (\A w \in BagToSet(inserted) : w[1] # result.sequence)
             => result.val = <<>>

C1_Witness ==
    /\ IsQuery
    /\ result.mismatches = 0
    /\ result.maximum_alignments = None
    /\ ~result.best_alignments
    /\ \E w \in BagToSet(inserted) : w[1] = result.sequence /\ w[4]
    /\ \E w \in BagToSet(inserted) : w[1] # result.sequence
    /\ result.val # <<>>

(* C2: without maximum_alignments a query returns exactly one result for
   each inserted window within the mismatch budget: none is missed, none
   farther away is reported, none is reported twice. *)
C2_ExactlyTheWindowsWithin ==
    (IsQuery /\ result.maximum_alignments = None)
    => /\ result.exc = "none"
       /\ BagOfSeq(result.val) = Unranked(Within(result.sequence, result.mismatches))

C2_Witness ==
    /\ IsQuery
    /\ result.maximum_alignments = None
    /\ result.mismatches >= 1
    /\ \E w \in BagToSet(inserted) :
          Distance(w[1], result.sequence) = result.mismatches
    /\ \E w \in BagToSet(inserted) :
          Distance(w[1], result.sequence) > result.mismatches
    /\ result.val # <<>>

(* C3: a query whose length is not the width fails with ValueError, in
   alignments and in the containment test, whatever the other arguments,
   and leaves the trie, the identifier table and the width as they were. *)
C3_InvalidWidth ==
    [][(/\ result'.op \in {"alignments", "contains"}
        /\ Len(result'.sequence) # width)
       => /\ result'.exc = "ValueError"
          /\ root' = root
          /\ sequence_name_table' = sequence_name_table
          /\ width' = width]_vars

C3_Witness ==
    /\ result.op \in {"alignments", "contains"}
    /\ Len(result.sequence) < width
    /\ result.exc = "ValueError"
    /\ BagCardinality(inserted) > 0

(* C4: alignments(q, maximum_alignments=k) with k > 0 returns at most k
   results, and exactly k when the same query without maximum_alignments
   returns at least k. *)
C4_Cap ==
    (/\ IsQuery
     /\ result.mismatches = 0
     /\ result.maximum_alignments # None
     /\ result.maximum_alignments > 0)
    => LET all == FixedTree_alignments(self, result.sequence, 0, None,
                      result.best_alignments)
       IN  /\ result.exc = "none"
           /\ Len(result.val) <= result.maximum_alignments
           /\ Len(all.val) >= result.maximum_alignments
                 => Len(result.val) = result.maximum_alignments

C4_Witness ==
    /\ IsQuery
    /\ result.mismatches = 0
    /\ result.maximum_alignments = 1
    /\ ~result.best_alignments
    /\ Len(FixedTree_alignments(self, result.sequence, 0, None, FALSE).val) > 1
    /\ Len(result.val) = 1

(* C5: with a mismatch budget of at least 1, a cap k > 0 and
   best_alignments off, alignments returns without raising, at most k
   results, each of a window within the budget. *)
C5_CappedMismatchSearch ==
    (/\ IsQuery
     /\ result.mismatches >= 1
     /\ result.maximum_alignments # None
     /\ result.maximum_alignments > 0
     /\ ~result.best_alignments)
    => /\ result.exc = "none"
       /\ Len(result.val) <= result.maximum_alignments
       /\ BagOfSeq(result.val)
              \sqsubseteq Unranked(Within(result.sequence, result.mismatches))

(* C6: with best_alignments and a cap k the result is the k closest
   windows: the search ran uncapped, and no window left out is strictly
   closer to the query than one that is returned. *)
C6_GloballyClosest ==
    (/\ IsQuery
     /\ result.best_alignments
     /\ result.maximum_alignments # None
     /\ result.maximum_alignments > 0)
    => LET all == Within(result.sequence, width)
           within == Within(result.sequence, result.mismatches)
           left == all (-) Found(result)
       IN  /\ result.exc = "none"
           /\ Found(result) \sqsubseteq within
           /\ Len(result.val) =
                 Min(result.maximum_alignments, BagCardinality(within))
           /\ \A x \in BagToSet(left), y \in BagToSet(Found(result)) :
                 x[1] >= y[1]

C6_Witness ==
    /\ IsQuery
    /\ result.best_alignments
    /\ result.maximum_alignments = 1
    /\ result.exc = "none"
    /\ Len(result.found) = 1
    /\ LET search == FixedTreeNode_alignments(root, result.sequence,
                         result.mismatches, result.mismatches, None)
       IN  /\ Len(search.val) > 1
           /\ search.val[1][1] > result.found[1][1]

(* C7: with best_alignments the list is in non-decreasing order of the
   mismatch count attached by the search, and that count is the Hamming
   distance of the query to the fragment of the window reported. *)
C7_Ranked ==
    (IsQuery /\ result.best_alignments)
    => /\ result.exc = "none"
       /\ \A i, j \in 1..Len(result.found) :
             i <= j => result.found[i][1] <= result.found[j][1]
       /\ Found(result) \sqsubseteq Within(result.sequence, result.mismatches)

C7_Witness ==
    /\ IsQuery
    /\ result.best_alignments
    /\ result.exc = "none"
    /\ Len(result.found) >= 2
    /\ result.found[1][1] < result.found[Len(result.found)][1]
    /\ LET search == FixedTreeNode_alignments(root, result.sequence,
                         result.mismatches, result.mismatches, None)
       IN  search.val[1][1] > search.val[Len(search.val)][1]

(* C8: without a cap, a query never returns fewer alignments for a larger
   mismatch budget. *)
C8_Monotone ==
    (IsQuery /\ result.maximum_alignments = None /\ result.exc = "none")
    => \A m1 \in 0..result.mismatches :
          LET fewer == FixedTree_alignments(self, result.sequence, m1, None,
                           result.best_alignments)
          IN  fewer.exc = "none" /\ Len(fewer.val) <= Len(result.val)

C8_Witness ==
    /\ IsQuery
    /\ result.maximum_alignments = None
    /\ result.exc = "none"
    /\ result.mismatches >= 1
    /\ Len(FixedTree_alignments(self, result.sequence, 0, None, FALSE).val) >= 1
    /\ Len(result.val)
          > Len(FixedTree_alignments(self, result.sequence, 0, None, FALSE).val)

(* C9: the containment test is true exactly when alignments with the
   default arguments returns something, that is exactly when the query is
   the fragment of an inserted window. *)
C9_Contains ==
    (result.op = "contains" /\ Len(result.sequence) = width)
    => /\ result.exc = "none"
       /\ result.val
             = (FixedTree_alignments(self, result.sequence, 0, None, FALSE).val
                    # <<>>)
       /\ result.val = (\E w \in BagToSet(inserted) : w[1] = result.sequence)

C9_Witness ==
    /\ result.op = "contains"
    /\ Len(result.sequence) = width
    /\ result.val = TRUE
    /\ \E w \in BagToSet(inserted) : w[1] # result.sequence

(* C10: loading a file that store wrote to a fresh target gives an index
   of the same width and identifier table whose alignments, for every read
   of the width and every mismatch budget, are those of the index stored. *)
C10_RoundTrip ==
    (result.op = "load" /\ files[result.filename].exists)
    => LET original == stored[result.filename].index
       IN  /\ result.exc = "none"
           /\ width = original.width
           /\ sequence_name_table = original.sequence_name_table
           /\ \A q \in Strings(Bases, width, width), m \in 0..MaxMismatches :
                 LET loaded == FixedTree_alignments(self, q, m, None, FALSE)
                     before == FixedTree_alignments(original, q, m, None, FALSE)
                 IN  /\ loaded.exc = before.exc
                     /\ {loaded.val[i] : i \in 1..Len(loaded.val)}
                            = {before.val[i] : i \in 1..Len(before.val)}

(* the records held in the trie below a node, each with the labels of the
   edges from the root to its node joined: <<path, id, offset, strand>> *)
RECURSIVE Records(_, _)
RECURSIVE RecordsOfEdges(_, _, _)

RecordsOfEdges(edges, i, path) ==
    IF i > Len(edges) THEN EmptyBag
    ELSE Records(edges[i].val, path \o edges[i].key)
         (+) RecordsOfEdges(edges, i + 1, path)

Records(node, path) ==
    BagOfSeq([i \in 1..Len(node.alignments) |-> <<path>> \o node.alignments[i]])
    (+) RecordsOfEdges(node.edges, 1, path)

(* C11: store to a target that exists raises EnvironmentError, writes
   nothing, and leaves the target's contents and the index as they were. *)
C11_StoreExisting ==
    [][(result'.op = "store" /\ files[result'.filename].exists)
       => /\ result'.exc = "EnvironmentError"
          /\ files' = files
          /\ root' = root
          /\ sequence_name_table' = sequence_name_table
          /\ width' = width]_vars

C11_Witness ==
    /\ result.op = "store"
    /\ result.exc = "EnvironmentError"
    /\ files[result.filename].data # FixedTree_store(self)
    /\ root.edges # <<>>

(* a stream is well formed when it is what store writes for the index that
   load reads from it *)
Malformed(data) ==
    LET loaded == FixedTree_load(data)
    IN  loaded.exc # "none" \/ FixedTree_store(loaded.val) # data

(* the errors raised while a stream is read *)
StructuralErrors == {"struct.error", "UnicodeDecodeError"}

(* fewer records than the original, or fewer names *)
Partial(loaded, original) ==
    /\ Records(loaded.root, <<>>) \sqsubseteq Records(original.root, <<>>)
    /\ Len(loaded.sequence_name_table) <= Len(original.sequence_name_table)
    /\ \/ Records(loaded.root, <<>>) # Records(original.root, <<>>)
       \/ Len(loaded.sequence_name_table) < Len(original.sequence_name_table)

(* C12: load of a truncated or malformed stream raises a structural error
   and returns no index; it never returns an index holding only part of the
   trie or of the identifier table that was stored. *)
C12_RejectsMalformed ==
    (result.op = "load" /\ exists(files, result.filename))
    => /\ Malformed(files[result.filename].data)
             => result.exc \in StructuralErrors
       /\ result.exc = "none"
             => ~Partial(self, stored[result.filename].index)

IsAdd == result.op = "add_sequence"

(* the id a name has in a table *)
IdOf(tab, name) == tab[CHOOSE i \in 1..Len(tab) : tab[i].val = name].key

(* the window of width w at offset i of a sequence *)
Fragment(s, i, w) == SubSeq(s, i + 1, i + w)

(* the records of a bag on one strand *)
OnStrand(bag, strand) ==
    [x \in {y \in BagToSet(bag) : y[4] = strand} |-> bag[x]]

(* C13: add_sequence inserts, for each offset i in 0..len(s)-W and no
   other, one forward record (id, i, True) under s[i:i+W], and keeps the
   records there were; a sequence shorter than W inserts none. *)
C13_ForwardWindows ==
    [][IsAdd'
       => LET s == result'.sequence
              id == IdOf(sequence_name_table', result'.identifier)
              before == Records(root, <<>>)
              after == Records(root', <<>>)
              added == after (-) before
          IN  /\ before \sqsubseteq after
              /\ \A i \in 0..(Len(s) - width) :
                    CopiesIn(<<Fragment(s, i, width), id, i, TRUE>>, added) = 1
              /\ \A x \in BagToSet(OnStrand(added, TRUE)) :
                    /\ x[2] = id
                    /\ x[3] \in 0..(Len(s) - width)
                    /\ x[1] = Fragment(s, x[3], width)
              /\ Len(s) < width => after = before]_vars

C13_Witness ==
    /\ IsAdd
    /\ ~result.reverse
    /\ Len(result.sequence) = width + 1
    /\ BagCardinality(Records(root, <<>>)) = 2

(* the base a base pairs with *)
Paired(c) == IF c = "A" THEN "T" ELSE IF c = "T" THEN "A"
             ELSE IF c = "G" THEN "C" ELSE "G"

(* the paired bases of a fragment, last first *)
RevComp(s) == [i \in 1..Len(s) |-> Paired(s[Len(s) + 1 - i])]

(* C14: with reverse=True every forward window at offset i also yields a
   record (id, i, False) under the reverse complement of its fragment, so a
   query for that reverse complement returns (name, i, False); with
   reverse=False no strand-False record is inserted. *)
C14_ReverseStrand ==
    [][IsAdd'
       => LET s == result'.sequence
              id == IdOf(sequence_name_table', result'.identifier)
              added == Records(root', <<>>) (-) Records(root, <<>>)
          IN  IF result'.reverse
              THEN \A i \in 0..(Len(s) - width) :
                     LET q == RevComp(Fragment(s, i, width))
                         out == FixedTree_alignments(self', q, 0, None, FALSE)
                     IN  /\ CopiesIn(<<q, id, i, FALSE>>, added) = 1
                         /\ out.exc = "none"
                         /\ \E k \in 1..Len(out.val) :
                               out.val[k] = <<result'.identifier, i, FALSE>>
              ELSE OnStrand(added, FALSE) = EmptyBag]_vars

C14_Witness ==
    /\ IsAdd
    /\ result.reverse
    /\ Len(result.sequence) = width
    /\ RevComp(result.sequence) # result.sequence
    /\ FixedTree_alignments(self, RevComp(result.sequence), 0, None, FALSE).val
          = <<<<result.identifier, 0, FALSE>>>>

(* the table maps 1..n, in this order, to n distinct names *)
TableOK(tab) ==
    /\ \A i \in 1..Len(tab) : tab[i].key = i
    /\ \A i, j \in 1..Len(tab) : tab[i].val = tab[j].val => i = j

(* C15: the identifier table maps exactly 1..n to the n distinct names seen,
   in first-seen order: a name seen before keeps its id and leaves the table
   as it is, a new name is given n+1. *)
C15_Interning ==
    [][/\ TableOK(sequence_name_table')
       /\ IsAdd'
          => LET tab == sequence_name_table
                 name == result'.identifier
             IN  IF \E i \in 1..Len(tab) : tab[i].val = name
                 THEN sequence_name_table' = tab
                 ELSE sequence_name_table'
                          = Append(tab, [key |-> Len(tab) + 1, val |-> name])]_vars

C15_Witness ==
    /\ IsAdd
    /\ Len(sequence_name_table) = 2
    /\ result.identifier = sequence_name_table[1].val
    /\ \E w \in BagToSet(inserted) : w[2] = sequence_name_table[2].val

(* two labels that start with the same non-empty string *)
SharePrefix(a, b) ==
    \E n \in 1..Min(Len(a), Len(b)) : SubSeq(a, 1, n) = SubSeq(b, 1, n)

RECURSIVE Uncommon(_)
Uncommon(node) ==
    /\ \A i \in 1..Len(node.edges) : node.edges[i].key # <<>>
    /\ \A i, j \in 1..Len(node.edges) :
          i # j => ~SharePrefix(node.edges[i].key, node.edges[j].key)
    /\ \A i \in 1..Len(node.edges) : Uncommon(node.edges[i].val)

(* an edge of the root that a split has shortened, with both branches *)
HasSplit ==
    \E i \in 1..Len(root.edges) :
        /\ Len(root.edges[i].key) < width
        /\ Len(root.edges[i].val.edges) >= 2

(* C16: after every insertion, splits included, no node has two outgoing
   edge labels that share a non-empty prefix, and no edge label is empty. *)
C16_EdgesUncommon == Uncommon(root)

C16_Witness ==
    /\ IsAdd
    /\ HasSplit
    /\ Len(result.sequence) = width
    /\ Len(sequence_name_table) = 1

(* a bag of <<path, id, offset, strand>> with the ids resolved to names *)
Named(bag, tab) ==
    LET S == BagToSet(bag)
        name(x) == <<x[1], DictGet(tab, x[2]), x[3], x[4]>>
    IN  [p \in {name(x) : x \in S} |->
            BagCardinality([x \in {y \in S : name(y) = p} |-> bag[x]])]

(* C17: the (path, record) pairs in the trie are the (fragment, record)
   pairs that were inserted, each as often as it was inserted: no insertion
   loses a record, duplicates it or moves it to another path. *)
C17_RecordsKept ==
    /\ \A x \in BagToSet(Records(root, <<>>)) :
          DictHas(sequence_name_table, x[2])
    /\ Named(Records(root, <<>>), sequence_name_table) = inserted

C17_Witness ==
    /\ IsAdd
    /\ HasSplit
    /\ Len(sequence_name_table) = 2
    /\ BagCardinality(inserted) = 2

(* C18: the root holds no alignment records: after construction, after
   add_sequence and after load of a stream that store wrote. *)
C18_RootEmpty == root.alignments = <<>>

C18_Witness ==
    /\ result.op = "load"
    /\ result.exc = "none"
    /\ root.edges # <<>>
    /\ BagCardinality(inserted) = 2

(* the index holds GGAATTCC, named foo, on the forward strand only *)
BuiltFromFoo == inserted = SetToBag(WindowsOf(GGAATTCC, foo, FALSE, 2))

AboutGG ==
    /\ BuiltFromFoo
    /\ result.op \in {"alignments", "contains"}
    /\ result.sequence = <<"G", "G">>

(* C19: the index of width 2 over GGAATTCC named foo, forward strand only:
   GG is contained, alignments(GG) is [(foo, 0, True)], alignments(GG,
   mismatches=1) has 2 results, and with best_alignments these are
   [(foo, 0, True), (foo, 1, True)] in this order. *)
C19_Scenario ==
    AboutGG
    => /\ result.exc = "none"
       /\ result.op = "contains" => result.val = TRUE
       /\ (result.op = "alignments" /\ result.mismatches = 0)
             => result.val = <<<<foo, 0, TRUE>>>>
       /\ (result.op = "alignments" /\ result.mismatches = 1)
             => Len(result.val) = 2
       /\ (/\ result.op = "alignments"
           /\ result.mismatches = 1
           /\ result.best_alignments)
             => result.val = <<<<foo, 0, TRUE>>, <<foo, 1, TRUE>>>>

C19_Witness ==
    /\ AboutGG
    /\ result.op = "alignments"
    /\ result.mismatches = 1
    /\ result.best_alignments
    /\ Len(result.val) = 2
    /\ Len(root.edges) = 4

(* add_sequence of each sequence of a source in turn, from the i-th on *)
RECURSIVE AddEach(_, _, _, _)
AddEach(index, source, reverse, i) ==
    IF i > Len(source) THEN index
    ELSE AddEach(FixedTree_add_sequence(index, source[i].sequence,
                     source[i].identifier, reverse),
                 source, reverse, i + 1)

(* C20: constructing an index from a source and a width is the same as
   constructing an empty index of that width and calling add_sequence on
   each sequence of the source in order; every window of every sequence of
   the source is then found by a query. *)
C20_ConstructFromSource ==
    result.op = "construct"
    => /\ result.exc = "none"
       /\ self = AddEach(FixedTree(width), result.source, result.reverse, 1)
       /\ \A w \in BagToSet(WindowsOfAll(result.source, result.reverse, width, 1)) :
             LET out == FixedTree_alignments(self, w[1], 0, None, FALSE)
             IN  /\ out.exc = "none"
                 /\ \E k \in 1..Len(out.val) : out.val[k] = <<w[2], w[3], w[4]>>

(* the alignments an uncapped query returns, each as often as returned *)
Returned(index, q, m, best) ==
    BagOfSeq(FixedTree_alignments(index, q, m, None, best).val)

(* C21: an add_sequence between queries only adds matches: for every query
   q of the index's width and every budget m, what alignments(q, m) returned
   before the call it returns after it, a fragment that was contained is
   contained, and every window of the sequence added is contained
   afterwards. *)
C21_OnlyAdds ==
    [][IsAdd'
       => /\ \A q \in Strings(Bases, width, width), m \in 0..MaxMismatches,
                best \in BOOLEAN :
                /\ FixedTree_alignments(self', q, m, None, best).exc = "none"
                /\ Returned(self, q, m, best) \sqsubseteq Returned(self', q, m, best)
          /\ \A q \in Strings(Bases, width, width) :
                FixedTree___contains__(self, q).val
                   => FixedTree___contains__(self', q).val
          /\ \A i \in 0..(Len(result'.sequence) - width) :
                FixedTree___contains__(self',
                    Fragment(result'.sequence, i, width)) = Return(TRUE)]_vars

(* an add_sequence that split the edge of a fragment indexed before it *)
C21_Witness ==
    /\ IsAdd
    /\ HasSplit
    /\ Len(result.sequence) >= width
    /\ \E x \in BagToSet(inserted) :
          \A i \in 0..(Len(result.sequence) - width) :
              x[1] # Fragment(result.sequence, i, width)

(* every edge label below a node is no longer than what is left of a
   query that has come down to that node *)
RECURSIVE LabelsFit(_, _)
LabelsFit(node, remaining) ==
    \A i \in 1..Len(node.edges) :
        /\ Len(node.edges[i].key) <= remaining
        /\ LabelsFit(node.edges[i].val, remaining - Len(node.edges[i].key))

(* C22: with every fragment and the query of length W, the search compares
   an edge label only with a query prefix of the label's length: no search,
   whatever the budget, ends in the ValueError that hamming_distance raises
   for strings of unequal length. *)
C22_EqualLengths ==
    /\ LabelsFit(root, width)
    /\ IsQuery => result.exc # "ValueError"

(* a search with a budget that took a mismatch on a shortened edge and
   went on below it *)
C22_Witness ==
    /\ IsQuery
    /\ HasSplit
    /\ result.mismatches >= 1
    /\ result.maximum_alignments = None
    /\ result.exc = "none"
    /\ \E i \in 1..Len(result.found) : result.found[i][1] >= 1
    /\ \E i \in 1..Len(root.edges) :
          /\ Len(root.edges[i].key) < width
          /\ ~startswith(result.sequence, root.edges[i].key)

(* C23: in every state reached by construction, add_sequence and load of a
   stored file, the id of every alignment record in the trie is a key of
   the identifier table, and no query ends in the KeyError of resolving an
   id that is not in the table (lines 206-208); the queries are taken at the
   largest budget, which finds what any smaller budget finds. *)
C23_IdsResolve ==
    /\ \A x \in BagToSet(Records(root, <<>>)) : DictHas(sequence_name_table, x[2])
    /\ \A q \in Strings(Bases, width, width) :
          FixedTree_alignments(self, q, MaxMismatches, None, FALSE).exc = "none"

(* an index loaded from a stored file, with two records to resolve *)
C23_Witness ==
    /\ result.op = "load"
    /\ result.exc = "none"
    /\ BagCardinality(Records(root, <<>>)) = 2
    /\ \E q \in Strings(Bases, width, width) :
          Len(FixedTree_alignments(self, q, MaxMismatches, None, FALSE).val) = 2

(* the longest sequence an index over a single sequence is built from *)
MaxSingleLen == 4

(* add_sequence, called once: the index over a single sequence, forward
   strand only *)
AddSingle ==
    /\ result = Idle
    /\ sequence_name_table = <<>>
    /\ \E seq \in Strings(Bases, 0, MaxSingleLen), identifier \in Names :
          LET new == FixedTree_add_sequence(self, seq, identifier, FALSE)
          IN  /\ root' = new.root
              /\ sequence_name_table' = new.sequence_name_table
              /\ width' = new.width
              /\ inserted' = SetToBag(WindowsOf(seq, identifier, FALSE, width))
              /\ result' = [op |-> "add_sequence", sequence |-> seq,
                             identifier |-> identifier, reverse |-> FALSE]
    /\ UNCHANGED <<files, stored, heap, threads>>

(* queries of an index over a single sequence, before and after it is
   added to and stored *)
NextFrame == AddSingle \/ Alignments \/ Contains \/ Store \/ Continue

SpecFrame == Init /\ [][NextFrame]_vars

(* C24: alignments(), with any mismatches, maximum_alignments and
   best_alignments, and the containment test leave the trie (nodes, edges,
   records), the identifier table and the width as they were; add_sequence
   and store leave the width as it was. *)
C24_Frame ==
    [][/\ result'.op \in {"alignments", "contains"}
          => /\ root' = root
             /\ sequence_name_table' = sequence_name_table
             /\ width' = width
       /\ result'.op \in {"add_sequence", "store"} => width' = width]_vars

(* a capped best-first query that found something, on an index that has
   been added to and stored *)
C24_Witness ==
    /\ IsQuery
    /\ result.best_alignments
    /\ result.maximum_alignments = 1
    /\ result.mismatches = 1
    /\ Len(result.found) = 1
    /\ BagCardinality(inserted) = 2
    /\ \E f \in FileNames : files[f].exists

(* ------------------ insert called from two threads --------------------- *)

(* While threads are inside insert the nodes are objects on a heap: heap is
   the sequence of the node objects, an edge holds the address (index) of
   its child and the root is at address 1; root is then the trie read off
   the heap from the root.  threads holds, for each thread, where it is in
   insert and its local variables.  A thread can be switched out between
   the edge scan of the for loop (lines 309-319) and the update it has
   decided on (lines 324-334 or line 340); a scan and an update are each
   taken as one step. *)
Threads == {1, 2}

RECURSIVE Allocate(_, _)
RECURSIVE AllocateEdges(_, _, _, _)

(* the node and all below it as objects added to the heap h *)
Allocate(h, node) ==
    LET id == Len(h) + 1
        object == [edges |-> <<>>, alignments |-> node.alignments]
    IN  [id |-> id, heap |-> AllocateEdges(Append(h, object), id, node.edges, 1)]

AllocateEdges(h, id, edges, i) ==
    IF i > Len(edges) THEN h
    ELSE LET child == Allocate(h, edges[i].val)
         IN  AllocateEdges([child.heap EXCEPT ![id].edges =
                                DictSet(@, edges[i].key, child.id)],
                           id, edges, i + 1)

(* the trie below the object at an address *)
RECURSIVE Reachable(_, _)
Reachable(h, id) ==
    [edges |-> [i \in 1..Len(h[id].edges) |->
                   [key |-> h[id].edges[i].key,
                    val |-> Reachable(h, h[id].edges[i].val)]],
     alignments |-> h[id].alignments]

(* a thread about to call root.insert(sequence, alignment), line 127 *)
Ready(sequence, alignment) ==
    [pc |-> "ready", subseq |-> sequence, self |-> 1, sequence |-> sequence,
     alignment |-> alignment, edge_label |-> <<>>, gsc |-> 0]

InInsert(t) == threads[t].pc \in {"call", "split", "leaf"}

(* an index built by add_sequence of one sequence of fewer than MaxRecords
   windows, and two threads each about to insert one fragment for it *)
InitThreads ==
    /\ width \in TrieWidths
    /\ \E seq \in Strings(Bases, 0, MaxSeqLen), identifier \in Names :
          LET built == FixedTree_add_sequence(FixedTree(width), seq,
                                              identifier, FALSE)
              id == FixedTree__get_id(built.sequence_name_table, identifier).id
          IN  /\ Cardinality(WindowsOf(seq, identifier, FALSE, width)) < MaxRecords
              /\ root = built.root
              /\ sequence_name_table = built.sequence_name_table
              /\ heap = Allocate(<<>>, built.root).heap
              /\ \E s1, s2 \in Strings(Bases, width, width) :
                    /\ threads = <<Ready(s1, Alignment(id, 0, TRUE)),
                                   Ready(s2, Alignment(id, 1, TRUE))>>
                    /\ inserted = SetToBag(WindowsOf(seq, identifier, FALSE, width))
                                  (+) SetToBag({<<s1, identifier, 0, TRUE>>})
                                  (+) SetToBag({<<s2, identifier, 1, TRUE>>})
              /\ result = [op |-> "insert", before |-> built.root,
                           order |-> <<>>, concurrent |-> FALSE]
    /\ files = [f \in FileNames |-> NoFile]
    /\ stored = [f \in FileNames |-> NotStored]

(* what a step of thread t leaves of the run: the order in which the
   threads called insert, and whether a call was made while the other
   thread was inside insert *)
Stepped(t) ==
    /\ result' = IF threads[t].pc = "ready"
                 THEN [result EXCEPT
                          !.order = Append(@, t),
                          !.concurrent = @ \/ \E u \in Threads \ {t} : InInsert(u)]
                 ELSE result
    /\ root' = Reachable(heap', 1)
    /\ UNCHANGED <<width, sequence_name_table, inserted, files, stored>>

(* lines 305-319: the call of insert on a node up to what it decides on:
   append to the node, follow an edge (a call on the child), split an edge,
   or fall out of the loop to the catch-all *)
Scan(t) ==
    /\ threads # <<>>
    /\ threads[t].pc \in {"ready", "call"}
    /\ LET this == threads[t]
           node == heap[this.self]
           hit(i) == \/ startswith(this.sequence, node.edges[i].key)
                     \/ greatest_common_prefix(node.edges[i].key, this.sequence) > 0
           hits == {i \in 1..Len(node.edges) : hit(i)}
       IN  IF this.sequence = <<>>
           THEN /\ heap' = [heap EXCEPT ![this.self].alignments =
                               Append(@, this.alignment)]
                /\ threads' = [threads EXCEPT ![t].pc = "returned"]
           ELSE
             /\ heap' = heap
             /\ IF hits = {}
                THEN threads' = [threads EXCEPT ![t].pc = "leaf"]
                ELSE
                  LET i == CHOOSE j \in hits : \A h \in hits : j <= h
                      edge_label == node.edges[i].key
                  IN  IF startswith(this.sequence, edge_label)
                      THEN threads' = [threads EXCEPT
                              ![t].pc = "call",
                              ![t].self = node.edges[i].val,
                              ![t].sequence = Slice(this.sequence, Len(edge_label),
                                                    Len(this.sequence))]
                      ELSE threads' = [threads EXCEPT
                              ![t].pc = "split",
                              ![t].edge_label = edge_label,
                              ![t].gsc = greatest_common_prefix(edge_label,
                                                                this.sequence)]
    /\ Stepped(t)

(* lines 324-334: the split the scan decided on, up to the call of insert
   on the new node; self.edges[edge_label] raises KeyError when the edge is
   no longer there *)
Split(t) ==
    /\ threads # <<>>
    /\ threads[t].pc = "split"
    /\ LET this == threads[t]
           node == heap[this.self]
       IN  IF ~DictHas(node.edges, this.edge_label)
           THEN /\ heap' = heap
                /\ threads' = [threads EXCEPT ![t].pc = "raised"]
           ELSE
             LET old_child == DictGet(node.edges, this.edge_label)
                 new_child == Len(heap) + 1
                 object == SplitNode(this.edge_label, this.gsc, old_child)
             IN  /\ heap' = [Append(heap, object) EXCEPT ![this.self].edges =
                                DictSet(DictDel(@, this.edge_label),
                                        Slice(this.edge_label, 0, this.gsc),
                                        new_child)]
                 /\ threads' = [threads EXCEPT
                        ![t].pc = "call",
                        ![t].self = new_child,
                        ![t].sequence = Slice(this.sequence, this.gsc,
                                              Len(this.sequence))]
    /\ Stepped(t)

(* line 340: the catch-all the scan fell through to *)
Leaf(t) ==
    /\ threads # <<>>
    /\ threads[t].pc = "leaf"
    /\ LET this == threads[t]
           leaf == Len(heap) + 1
       IN  /\ heap' = [Append(heap, FixedTreeNode(<<this.alignment>>))
                         EXCEPT ![this.self].edges =
                             DictSet(@, this.sequence, leaf)]
           /\ threads' = [threads EXCEPT ![t].pc = "returned"]
    /\ Stepped(t)

(* both calls are over; the trie is what the root now reaches *)
Join ==
    /\ threads # <<>>
    /\ \A t \in Threads : threads[t].pc \in {"returned", "raised"}
    /\ result' = [op |-> "inserted", before |-> result.before,
                  order |-> result.order, concurrent |-> result.concurrent,
                  calls |-> [t \in Threads |->
                                [sequence |-> threads[t].subseq,
                                 alignment |-> threads[t].alignment]],
                  raised |-> {t \in Threads : threads[t].pc = "raised"}]
    /\ threads' = <<>>
    /\ heap' = <<>>
    /\ UNCHANGED <<root, width, sequence_name_table, inserted, files, stored>>

NextThreads ==
    \/ \E t \in Threads : Scan(t)
    \/ \E t \in Threads : Split(t)
    \/ \E t \in Threads : Leaf(t)
    \/ Join

SpecThreads == InitThreads /\ [][NextThreads]_vars

(* C25: two insert calls on the same trie whose scans and updates
   interleave can leave two edges of a node that share a prefix, or lose a
   record; when one call is over before the other starts, in either order,
   the trie is the one two insertions in a row build, its edges are
   uncommon and it holds every record handed in. *)
C25_SerialPreserves ==
    (result.op = "inserted" /\ ~result.concurrent)
    => LET first == result.calls[result.order[1]]
           second == result.calls[result.order[2]]
       IN  /\ result.raised = {}
           /\ root = FixedTreeNode_insert(
                         FixedTreeNode_insert(result.before, first.sequence,
                                              first.alignment),
                         second.sequence, second.alignment)
           /\ Uncommon(root)
           /\ Named(Records(root, <<>>), sequence_name_table) = inserted

(* two calls that overlapped and left sibling edges with a common prefix *)
C25_Witness ==
    /\ result.op = "inserted"
    /\ result.concurrent
    /\ ~Uncommon(root)

(* queries of the index over a single sequence *)
NextSingle == AddSingle \/ Alignments \/ Continue

SpecSingle == Init /\ [][NextSingle]_vars

(* the records of a trie in the order a search that skips nothing comes to
   them: a node's own, then those below each edge in edge-map order *)
RECURSIVE Traversal(_)
RECURSIVE TraversalOfEdges(_, _)

TraversalOfEdges(edges, i) ==
    IF i > Len(edges) THEN <<>>
    ELSE Traversal(edges[i].val) \o TraversalOfEdges(edges, i + 1)

Traversal(node) == node.alignments \o TraversalOfEdges(node.edges, 1)

(* where a found alignment <<mismatches, id, offset, strand>> is in the
   traversal *)
Position(x) ==
    CHOOSE p \in 1..Len(Traversal(root)) :
        Traversal(root)[p] = <<x[2], x[3], x[4]>>

(* two results of the last query that tie, the later at a lower offset *)
TieAgainstOffset ==
    \E i, j \in 1..Len(result.found) :
        /\ i < j
        /\ result.found[i][1] = result.found[j][1]
        /\ result.found[i][3] > result.found[j][3]

(* C26 as claimed: with best_alignments on an index over a single sequence,
   forward strand, results with the same mismatch count are in ascending
   order of offset. *)
C26_TiesByOffset ==
    (IsQuery /\ result.best_alignments /\ result.exc = "none")
    => ~TieAgainstOffset

(* C26 as amended: with best_alignments on an index over a single sequence,
   forward strand, results with the same mismatch count are in the order in
   which the traversal of the trie comes to their records. *)
C26_TiesInTraversalOrder ==
    (IsQuery /\ result.best_alignments /\ result.exc = "none")
    => \A i, j \in 1..Len(result.found) :
          (i < j /\ result.found[i][1] = result.found[j][1])
             => Position(result.found[i]) < Position(result.found[j])

(* a best_alignments query with a tie that is not in offset order, on a
   trie in which an edge was split *)
C26_Witness ==
    /\ IsQuery
    /\ result.best_alignments
    /\ result.exc = "none"
    /\ HasSplit
    /\ TieAgainstOffset

(* a trie without the iteration order of its edges and records: the set
   of <<label, child>> of each node and the bag of its records *)
RECURSIVE Shape(_)
Shape(node) ==
    [edges |-> {<<node.edges[i].key, Shape(node.edges[i].val)>> :
                   i \in 1..Len(node.edges)},
     alignments |-> BagOfSeq(node.alignments)]

(* the longest string every string of a non-empty set starts with *)
LongestCommonPrefix(S) ==
    LET s == CHOOSE x \in S : TRUE
        common(k) == \A y \in S : Len(y) >= k /\ SubSeq(y, 1, k) = SubSeq(s, 1, k)
        n == CHOOSE k \in 0..Len(s) :
                common(k) /\ \A j \in 0..Len(s) : common(j) => j <= k
    IN  SubSeq(s, 1, n)

(* the shape a bag of <<fragment, id, offset, strand>> determines: one
   edge for each first residue, labelled with all that the fragments
   starting with it have in common *)
RECURSIVE ShapeOf(_)
ShapeOf(B) ==
    LET S == BagToSet(B)
        ends == {x \in S : x[1] = <<>>}
        firsts == {x[1][1] : x \in S \ ends}
        group(c) == {x \in S \ ends : x[1][1] = c}
        label(c) == LongestCommonPrefix({x[1] : x \in group(c)})
        rest(c, x) == SubSeq(x[1], Len(label(c)) + 1, Len(x[1]))
        below(c) == [y \in {<<rest(c, x), x[2], x[3], x[4]>> : x \in group(c)} |->
                        B[<<label(c) \o y[1], y[2], y[3], y[4]>>]]
    IN  [edges |-> {<<label(c), ShapeOf(below(c))>> : c \in firsts},
         alignments |-> [r \in {<<x[2], x[3], x[4]>> : x \in ends} |->
                            B[<<<<>>, r[1], r[2], r[3]>>]]]

(* the windows handed to add_sequence, with the ids their names have *)
InsertedById ==
    [y \in {<<x[1], IdOf(sequence_name_table, x[2]), x[3], x[4]>> :
               x \in BagToSet(inserted)} |->
        inserted[<<y[1], DictGet(sequence_name_table, y[2]), y[3], y[4]>>]]

(* C27: the trie is canonical: its shape (the edge labels of every node and
   the bag of records of every node) is the one the bag of inserted
   (fragment, record) pairs determines, so that any two insertion orders of
   the same bag differ in the iteration order of edges and records only. *)
C27_Canonical == Shape(root) = ShapeOf(InsertedById)

(* two fragments whose two insertion orders give tries that differ, in the
   iteration order only *)
C27_Witness ==
    /\ IsAdd
    /\ \E x, y \in BagToSet(InsertedById) :
          LET one(node, z) == FixedTreeNode_insert(node, z[1], <<z[2], z[3], z[4]>>)
              xy == one(one(FixedTreeNode(<<>>), x), y)
              yx == one(one(FixedTreeNode(<<>>), y), x)
          IN  /\ x # y
              /\ root = xy
              /\ xy # yx
              /\ Shape(xy) = Shape(yx)

(* an identifier as its UTF-8 byte length followed by its UTF-8 bytes *)
EntryBytes(name) == pack_I(Len(encode(name))) \o encode(name)

(* the entries of a table with the ids 1..n, in ascending id order *)
RECURSIVE TableBytes(_, _)
TableBytes(tab, id) ==
    IF id > Len(tab) THEN <<>>
    ELSE EntryBytes(DictGet(tab, id)) \o TableBytes(tab, id + 1)

(* C28: store writes, after the width and the count, each entry of the
   identifier table in ascending id order as its UTF-8 byte length followed
   by that many UTF-8 bytes, and load reads every identifier back
   unchanged under its id, also one whose UTF-8 encoding is longer than
   its character count. *)
C28_NamesAsBytes ==
    /\ (result.op = "store" /\ result.exc = "none")
       => LET data == files[result.filename].data
              names == TableBytes(sequence_name_table, 1)
          IN  /\ TableOK(sequence_name_table)
              /\ Len(data) >= 8 + Len(names)
              /\ SubSeq(data, 9, 8 + Len(names)) = names
    /\ (result.op = "load" /\ files[result.filename].exists)
       => /\ result.exc = "none"
          /\ sequence_name_table = stored[result.filename].index.sequence_name_table

(* a node at a depth (the residues on the edges from the root to it) and
   all below it: one with edges, unless the root, has two or more and no
   records; one with records has no edges and is at depth w *)
RECURSIVE MaximalEdges(_, _, _, _)
MaximalEdges(node, depth, isroot, w) ==
    /\ (~isroot /\ node.edges # <<>>)
          => Len(node.edges) >= 2 /\ node.alignments = <<>>
    /\ node.alignments # <<>> => node.edges = <<>> /\ depth = w
    /\ \A i \in 1..Len(node.edges) :
          MaximalEdges(node.edges[i].val, depth + Len(node.edges[i].key),
                       FALSE, w)

(* C29: after any insertions of fragments of length W, every node other
   than the root that has outgoing edges has at least two and holds no
   records, and every node that holds records has no outgoing edges and is
   at depth exactly W. *)
C29_MaximalEdges == MaximalEdges(root, 0, TRUE, width)

(* a trie of width 3 with an inner node of two edges below the root *)
C29_Witness ==
    /\ IsAdd
    /\ HasSplit
    /\ width = 3
    /\ \E i \in 1..Len(root.edges) :
          /\ Len(root.edges[i].val.edges) = 2
          /\ \A j \in 1..2 : Len(root.edges[i].val.edges[j].val.alignments) = 1

(* identifiers, one of them of two characters of which the first is not
   ASCII *)
ReloadNames == {<<"a">>, <<"u00E9", "a">>}

(* add_sequence with one of these identifiers *)
AddNamed ==
    /\ result = Idle
    /\ \E seq \in Strings(Bases, 0, MaxSeqLen), identifier \in ReloadNames,
          reverse \in BOOLEAN :
          LET new == FixedTree_add_sequence(self, seq, identifier, reverse)
              windows == WindowsOf(seq, identifier, reverse, width)
          IN  /\ BagCardinality(inserted) + Cardinality(windows) <= MaxRecords
              /\ root' = new.root
              /\ sequence_name_table' = new.sequence_name_table
              /\ width' = new.width
              /\ inserted' = inserted (+) SetToBag(windows)
              /\ result' = [op |-> "add_sequence", sequence |-> seq,
                             identifier |-> identifier, reverse |-> reverse]
    /\ UNCHANGED <<files, stored, heap, threads>>

(* storing an index, loading it and adding to it *)
NextReload == AddNamed \/ Store \/ Load \/ Continue

SpecReload == Init /\ [][NextReload]_vars

(* C30: after load of an index stored with n identifiers, add_sequence
   with a name of the stored table takes that name's stored id and leaves
   the table as it is, add_sequence with a new name takes the id n+1, and
   in the table afterwards every stored id still has its stored name. *)
C30_NumberingSurvives ==
    (result.op = "load" /\ result.exc = "none")
    => LET original == stored[result.filename].index.sequence_name_table
           n == Len(original)
       IN  \A seq \in Strings(Bases, width, width), identifier \in ReloadNames :
              LET after == FixedTree_add_sequence(self, seq, identifier, FALSE)
                  added == Records(after.root, <<>>) (-) Records(root, <<>>)
                  id == IF \E i \in 1..n : original[i].val = identifier
                        THEN IdOf(original, identifier)
                        ELSE n + 1
              IN  /\ added = SetToBag({<<seq, id, 0, TRUE>>})
                  /\ DictGet(after.sequence_name_table, id) = identifier
                  /\ \A i \in 1..n :
                        DictGet(after.sequence_name_table, original[i].key)
                           = original[i].val

====
